---- MODULE Spec2Model ----
(***************************************************************************)
(* Authenticated API access layer of the ARTHA trading dashboard frontend. *)
(*                                                                         *)
(*   lib/api  : module-level token store (memory + localStorage), the      *)
(*              axios instance `api` with its request interceptor (bearer  *)
(*              stamping) and response interceptor (401 -> refresh ->      *)
(*              resubmit), authApi.login / logout / getMe.                 *)
(*   lib/auth : AuthProvider (React Query ['user'] query, login mutation,  *)
(*              logout) and the value exposed by useAuth.                  *)
(*                                                                         *)
(* JavaScript is single threaded: a handler runs to its next await on a    *)
(* network call without interleaving, so every action below is one such    *)
(* run-to-completion step.  The backend is an external collaborator: its   *)
(* answers are nondeterministic.                                           *)
(***************************************************************************)
EXTENDS Integers, FiniteSets, Sequences, TLC

\* ---------------------------------------------------------------- bounds
NReq == 2          \* request slots: requests through `api` awaited at one time
MaxTok == 2        \* token pairs the backend mints in one run
MaxIssued == 3     \* requests issued through `api` in one run
MaxArg == 3        \* token strings passed to setTokens by a direct caller
MaxTrades == 2     \* trade mutations that succeed in one run

Req == 1..NReq
TokIds == 0..MaxTok

\* ---------------------------------------------------------------- values
Null == <<>>                          \* JavaScript null
AccessTok(k) == <<"access", k>>       \* access_token of the k-th minted pair
RefreshTok(k) == <<"refresh", k>>     \* refresh_token of the k-th minted pair

\* HTTP outcomes of one network call; NoResponse is a transport failure
\* (error.response undefined), which also covers a timed out call.
NoResponse == 0
ErrStatuses == {401, 403, 500, NoResponse}
\* ... and with a validation error (any other 4xx) of the wire contract.
WireErrStatuses == ErrStatuses \cup {422}

Kinds == {"data", "me", "login"}

\* The trade mutation hooks, the query keys their onSuccess invalidates and
\* the keys of the cache at large.
Hooks == {"useBuyStock", "useSellStock", "useQuickTrade"}
TradeKeys == {"positions", "user", "trade-history", "portfolio-summary"}
QueryKeys == TradeKeys \cup {"stocks", "prediction", "leaderboard"}

\* QueryClient defaultOptions.mutations.retry
MutationRetry == 1

\* typeof window !== 'undefined' : the code runs in the browser
HasWindow == TRUE

VARIABLES
    accessToken,     \* lib/api: let accessToken
    refreshToken,    \* lib/api: let refreshToken
    lsAccess,        \* localStorage['artha_access_token']
    lsRefresh,       \* localStorage['artha_refresh_token']
    nextTok,         \* backend: pairs minted so far
    req,             \* one record per request issued through `api`
    issued,          \* requests issued so far
    refreshFailed,   \* a refresh call has failed and no login has succeeded since
    isInitialized,   \* AuthProvider: useState(false)
    userData,        \* query cache data of ['user']: "undefined" | "null" | "user"
    userError,       \* whether the ['user'] query holds an error
    meReq,           \* request the ['user'] query is waiting on, 0 if none
    enabled,         \* `enabled` option of the ['user'] query at the last render
    mutation,        \* per trade hook: state of its mutation
    invalidated      \* per query key: invalidateQueries calls so far

tokvars == <<accessToken, refreshToken, lsAccess, lsRefresh>>
sessvars == <<isInitialized, userData, userError, meReq, enabled>>
tradevars == <<mutation, invalidated>>
vars == <<accessToken, refreshToken, lsAccess, lsRefresh, nextTok, req,
          issued, refreshFailed, isInitialized, userData, userError, meReq, enabled,
          mutation, invalidated>>

\* A request that has not been issued yet.
FreshReq ==
    [pc |-> "idle", kind |-> "data", retry |-> FALSE, auth |-> Null,
     sends |-> 0, refreshes |-> 0, rsp1 |-> -1, rsp2 |-> -1,
     refSent |-> Null, refRes |-> "none", refTok |-> Null, ep |-> 0,
     out |-> "none", outStatus |-> -1, cancelled |-> "no"]

\* ------------------------------------------------------------ token store
GetAccessToken ==
    IF accessToken # Null THEN accessToken
    ELSE IF HasWindow THEN lsAccess ELSE Null

GetRefreshToken ==
    IF refreshToken # Null THEN refreshToken
    ELSE IF HasWindow THEN lsRefresh ELSE Null

\* setTokens with its two arguments stored the wrong way round.
SetTokens_Swapped(access, refresh) ==
    /\ accessToken' = refresh
    /\ refreshToken' = access
    /\ IF HasWindow
       THEN lsAccess' = refresh /\ lsRefresh' = access
       ELSE UNCHANGED <<lsAccess, lsRefresh>>

\* setTokens that forgets the localStorage writes.
SetTokens_MemoryOnly(access, refresh) ==
    /\ accessToken' = access
    /\ refreshToken' = refresh
    /\ UNCHANGED <<lsAccess, lsRefresh>>

SetTokens(access, refresh) ==
    /\ accessToken' = access
    /\ refreshToken' = refresh
    /\ IF HasWindow
       THEN lsAccess' = access /\ lsRefresh' = refresh
       ELSE UNCHANGED <<lsAccess, lsRefresh>>

\* clearTokens that forgets the refresh token.
ClearTokens_AccessOnly ==
    /\ accessToken' = Null
    /\ UNCHANGED refreshToken
    /\ IF HasWindow
       THEN lsAccess' = Null /\ UNCHANGED lsRefresh
       ELSE UNCHANGED <<lsAccess, lsRefresh>>

ClearTokens ==
    /\ accessToken' = Null
    /\ refreshToken' = Null
    /\ IF HasWindow
       THEN lsAccess' = Null /\ lsRefresh' = Null
       ELSE UNCHANGED <<lsAccess, lsRefresh>>

\* ------------------------------------------------------------ interceptors
\* A request interceptor that leaves the header as it found it.
Authorize_KeepHeader(hdr, token) == hdr

\* A request interceptor that stamps a placeholder credential when the store
\* is empty.
Authorize_AlwaysStamp(hdr, token) == IF token # Null THEN token ELSE AccessTok(0)

\* Request interceptor: the Authorization header of a config that carried
\* header hdr, when the store's access token is token.
Authorize(hdr, token) == IF token # Null THEN token ELSE hdr

\* The refresh branch taken without looking at the stored refresh token.
HasRefresh_Always(refresh) == TRUE

\* Response interceptor: `if (refresh)`
HasRefresh(refresh) == refresh # Null

\* The 401 test widened to 403.
ShouldRefresh_Also403(status, retry) == status \in {401, 403} /\ ~retry

\* The 401 test without the _retry guard.
ShouldRefresh_IgnoreRetry(status, retry) == status = 401

\* Response interceptor: `error.response?.status === 401 && !originalRequest._retry`
ShouldRefresh(status, retry) == status = 401 /\ ~retry

\* ------------------------------------------------------------ AuthProvider
\* enabled: isInitialized && !!getAccessToken(), evaluated when the provider renders
QueryEnabled(init, token) == init /\ token # Null

User == IF userData = "user" THEN "user" ELSE "null"       \* user ?? null
IsAuthenticated == userData = "user"                        \* !!user
IsLoading == ~isInitialized \/ (meReq # 0 /\ userData = "undefined")

\* ------------------------------------------------------------ episodes
RefreshInFlight == {r \in Req : req[r].pc = "refreshing"}

RECURSIVE MaxEp(_)
MaxEp(S) == IF S = {} THEN 0
            ELSE LET r == CHOOSE x \in S : TRUE
                     m == MaxEp(S \ {r})
                 IN IF req[r].ep > m THEN req[r].ep ELSE m

\* The refresh episode a 401 arriving now belongs to: the one of the refresh
\* calls in flight, or a new one.
CurrentEp ==
    IF RefreshInFlight # {}
    THEN req[CHOOSE r \in RefreshInFlight : TRUE].ep
    ELSE MaxEp(Req) + 1

\* ------------------------------------------------------------ initial state
\* A page load: memory is empty; localStorage is empty or holds the pair a
\* previous page load left there.
Init ==
    /\ accessToken = Null
    /\ refreshToken = Null
    /\ \E stored \in BOOLEAN :
         /\ lsAccess = IF stored THEN AccessTok(0) ELSE Null
         /\ lsRefresh = IF stored THEN RefreshTok(0) ELSE Null
    /\ nextTok = 0
    /\ req = [r \in Req |-> FreshReq]
    /\ issued = 0
    /\ refreshFailed = FALSE
    /\ isInitialized = FALSE
    /\ userData = "undefined"
    /\ userError = FALSE
    /\ meReq = 0
    /\ enabled = FALSE
    /\ mutation = [h \in Hooks |-> [status |-> "idle", failureCount |-> 0]]
    /\ invalidated = [k \in QueryKeys |-> 0]


\* ------------------------------------------------------------ settling
\* What the caller's continuation does to the AuthProvider when request r of
\* the given kind settles (ok: resolved), the store's access token being
\* tokenAfter at that moment:
\*   login : authApi.login resolves -> onSuccess setQueryData(['user'], data.user);
\*           the mutation state change re-renders the provider;
\*   me    : the ['user'] query stores the profile, or records the error and
\*           keeps its data; the query state change re-renders the provider;
\*   data  : hooks of other components, the provider is not re-rendered.
\* The same without loginMutation's onSuccess (no setQueryData).
SettleSession_NoLoginUser(r, kind, ok, tokenAfter) ==
    LET observed == kind = "me" /\ meReq = r IN
    /\ isInitialized' = isInitialized
    /\ userData' = IF ok /\ observed THEN "user" ELSE userData
    /\ userError' = IF observed THEN ~ok ELSE userError
    /\ meReq' = IF observed THEN 0 ELSE meReq
    /\ enabled' = IF kind = "login" \/ observed
                  THEN QueryEnabled(isInitialized, tokenAfter)
                  ELSE enabled

\* The same with a ['user'] query that drops its data when a fetch fails.
SettleSession_DropOnError(r, kind, ok, tokenAfter) ==
    LET observed == kind = "me" /\ meReq = r IN
    /\ isInitialized' = isInitialized
    /\ userData' = IF ok /\ (kind = "login" \/ observed) THEN "user"
                   ELSE IF observed THEN "null"
                   ELSE userData
    /\ userError' = IF observed THEN ~ok
                    ELSE IF kind = "login" /\ ok THEN FALSE
                    ELSE userError
    /\ meReq' = IF observed THEN 0 ELSE meReq
    /\ enabled' = IF kind = "login" \/ observed
                  THEN QueryEnabled(isInitialized, tokenAfter)
                  ELSE enabled

SettleSession(r, kind, ok, tokenAfter) ==
    LET observed == kind = "me" /\ meReq = r IN
    /\ isInitialized' = isInitialized
    /\ userData' = IF ok /\ (kind = "login" \/ observed) THEN "user" ELSE userData
    /\ userError' = IF observed THEN ~ok
                    ELSE IF kind = "login" /\ ok THEN FALSE
                    ELSE userError
    /\ meReq' = IF observed THEN 0 ELSE meReq
    /\ enabled' = IF kind = "login" \/ observed
                  THEN QueryEnabled(isInitialized, tokenAfter)
                  ELSE enabled

\* An error handler that returns a promise which never settles.
Rejected_NeverSettles(q, st) == [q EXCEPT !.outStatus = st]

\* The record of a request rejected to its caller with the error of status st.
Rejected(q, st) ==
    [q EXCEPT !.pc = "done", !.out = "rejected", !.outStatus = st,
              !.cancelled = "no"]

\* The record of a request after the response st to its latest submission.
Answered(q, st) == IF q.sends = 1 THEN [q EXCEPT !.rsp1 = st]
                   ELSE [q EXCEPT !.rsp2 = st]

\* ------------------------------------------------------------ actions
\* AuthProvider: useEffect on mount.
Mount ==
    /\ ~isInitialized
    /\ isInitialized' = TRUE
    /\ userData' = IF GetAccessToken = Null THEN "null" ELSE userData
    /\ enabled' = QueryEnabled(TRUE, GetAccessToken)
    /\ UNCHANGED <<tokvars, nextTok, req, issued, refreshFailed, meReq, userError>>
    /\ UNCHANGED tradevars

\* A request interceptor that holds new requests back while a refresh call
\* is in flight.
Send_AfterRefresh(r, kind) ==
    /\ RefreshInFlight = {}
    /\ req[r].pc = "idle"
    /\ \A s \in Req : s < r => req[s].pc # "idle"
    /\ issued < MaxIssued
    /\ issued' = issued + 1
    /\ kind = "me" => enabled /\ meReq = 0
    /\ kind = "login" => isInitialized
    /\ req' = [req EXCEPT ![r] =
                 [@ EXCEPT !.pc = "sent", !.kind = kind, !.sends = 1,
                           !.auth = Authorize(Null, GetAccessToken)]]
    /\ meReq' = IF kind = "me" THEN r ELSE meReq
    /\ userError' = IF kind = "me" /\ userData = "undefined" THEN FALSE ELSE userError
    /\ enabled' = IF kind \in {"me", "login"}
                  THEN QueryEnabled(isInitialized, GetAccessToken)
                  ELSE enabled
    /\ UNCHANGED <<tokvars, nextTok, refreshFailed, isInitialized, userData>>
    /\ UNCHANGED tradevars

\* A caller issues a request through `api`: the request interceptor stamps
\* it and the transport sends it.
\*   data  : any data-fetching hook or trade mutation;
\*   me    : the ['user'] query fetches (enabled at the last render, no
\*           fetch of it in flight);
\*   login : loginMutation.mutateAsync from the login page.
Send(r, kind) ==
    /\ req[r].pc = "idle"
    /\ \A s \in Req : s < r => req[s].pc # "idle"
    /\ issued < MaxIssued
    /\ issued' = issued + 1
    /\ kind = "me" => enabled /\ meReq = 0
    /\ kind = "login" => isInitialized
    /\ req' = [req EXCEPT ![r] =
                 [@ EXCEPT !.pc = "sent", !.kind = kind, !.sends = 1,
                           !.auth = Authorize(Null, GetAccessToken)]]
    /\ meReq' = IF kind = "me" THEN r ELSE meReq
    /\ userError' = IF kind = "me" /\ userData = "undefined" THEN FALSE ELSE userError
    /\ enabled' = IF kind \in {"me", "login"}
                  THEN QueryEnabled(isInitialized, GetAccessToken)
                  ELSE enabled
    /\ UNCHANGED <<tokvars, nextTok, refreshFailed, isInitialized, userData>>
    /\ UNCHANGED tradevars

\* The backend answers a submitted request with 200: the response interceptor
\* passes it on; authApi.login stores the pair of the response.
RespondOk(r) ==
    LET q == req[r]
        k == nextTok + 1 IN
    /\ q.pc = "sent"
    /\ req' = [req EXCEPT ![r] =
                 [Answered(q, 200) EXCEPT !.pc = "done", !.out = "resolved",
                                          !.outStatus = 200,
                                          !.cancelled = "no"]]
    /\ UNCHANGED issued
    /\ IF q.kind = "login"
       THEN /\ nextTok < MaxTok
            /\ SetTokens(AccessTok(k), RefreshTok(k))
            /\ nextTok' = k
            /\ refreshFailed' = FALSE
            /\ SettleSession(r, q.kind, TRUE, GetAccessToken')
       ELSE /\ UNCHANGED <<tokvars, nextTok, refreshFailed>>
            /\ SettleSession(r, q.kind, TRUE, GetAccessToken)
    /\ UNCHANGED tradevars

\* The backend answers a submitted request with an error status, or the
\* transport fails: the response interceptor's error handler.
RespondErr(r, st) ==
    LET q == Answered(req[r], st) IN
    /\ req[r].pc = "sent"
    /\ st \in WireErrStatuses
    /\ UNCHANGED <<tokvars, nextTok, issued, refreshFailed>>
    /\ IF ShouldRefresh(st, q.retry)
       THEN IF HasRefresh(GetRefreshToken)
            THEN /\ req' = [req EXCEPT ![r] =
                              [q EXCEPT !.retry = TRUE, !.pc = "refreshing",
                                        !.refreshes = @ + 1,
                                        !.refSent = GetRefreshToken,
                                        !.ep = CurrentEp]]
                 /\ UNCHANGED sessvars
            ELSE /\ req' = [req EXCEPT ![r] =
                              Rejected([q EXCEPT !.retry = TRUE, !.ep = CurrentEp], st)]
                 /\ SettleSession(r, q.kind, FALSE, GetAccessToken)
       ELSE /\ req' = [req EXCEPT ![r] = Rejected(q, st)]
            /\ SettleSession(r, q.kind, FALSE, GetAccessToken)
    /\ UNCHANGED tradevars

\* A successful refresh that stores the pair but falls through to
\* `return Promise.reject(error)` instead of resubmitting.
RefreshOk_NoResubmit(r) ==
    LET q == req[r]
        k == nextTok + 1 IN
    /\ q.pc = "refreshing"
    /\ nextTok < MaxTok
    /\ SetTokens(AccessTok(k), RefreshTok(k))
    /\ nextTok' = k
    /\ req' = [req EXCEPT ![r] =
                 Rejected([q EXCEPT !.refRes = "ok", !.refTok = AccessTok(k)], q.rsp1)]
    /\ SettleSession(r, q.kind, FALSE, GetAccessToken')
    /\ UNCHANGED <<issued, refreshFailed>>
    /\ UNCHANGED tradevars

\* POST /api/auth/refresh of request r succeeds: store the new pair, set the
\* header and resubmit through `api` (the request interceptor runs again).
RefreshOk(r) ==
    LET q == req[r]
        k == nextTok + 1 IN
    /\ q.pc = "refreshing"
    /\ nextTok < MaxTok
    /\ SetTokens(AccessTok(k), RefreshTok(k))
    /\ nextTok' = k
    /\ req' = [req EXCEPT ![r] =
                 [q EXCEPT !.refRes = "ok", !.refTok = AccessTok(k),
                           !.auth = Authorize(AccessTok(k), GetAccessToken'),
                           !.pc = "sent", !.sends = @ + 1]]
    /\ UNCHANGED <<sessvars, issued, refreshFailed>>
    /\ UNCHANGED tradevars

\* A refresh call sent through `api`: its failure enters the error handler
\* again and issues another refresh call.
RefreshFail_Reenter(r) ==
    LET q == req[r] IN
    /\ q.pc = "refreshing"
    /\ q.refreshes < 2
    /\ req' = [req EXCEPT ![r] = [q EXCEPT !.refreshes = @ + 1]]
    /\ UNCHANGED <<tokvars, nextTok, issued, refreshFailed, sessvars>>
    /\ UNCHANGED tradevars

\* POST /api/auth/refresh of request r fails (error status, no response):
\* clear the store and reject the original error.
RefreshFail(r) ==
    LET q == req[r] IN
    /\ q.pc = "refreshing"
    /\ ClearTokens
    /\ req' = [req EXCEPT ![r] = Rejected([q EXCEPT !.refRes = "fail"], q.rsp1)]
    /\ SettleSession(r, q.kind, FALSE, GetAccessToken')
    /\ refreshFailed' = TRUE
    /\ UNCHANGED <<nextTok, issued>>
    /\ UNCHANGED tradevars

\* A logout that clears the tokens but leaves the query cache alone.
Logout_KeepCache ==
    /\ isInitialized
    /\ ClearTokens
    /\ UNCHANGED <<nextTok, req, issued, refreshFailed, sessvars>>
    /\ UNCHANGED tradevars

\* AuthProvider.logout: clearTokens, setQueryData(['user'], null),
\* queryClient.clear() (the ['user'] query is dropped and its fetch
\* cancelled: the query no longer observes the request, which stays in
\* flight; `cancelled` holds where the request was then, until it completes).
Logout ==
    /\ isInitialized
    /\ ClearTokens
    /\ userData' = "undefined"
    /\ userError' = FALSE
    /\ meReq' = 0
    /\ enabled' = QueryEnabled(isInitialized, GetAccessToken')
    /\ req' = [r \in Req |->
                 IF r = meReq THEN [req[r] EXCEPT !.cancelled = req[r].pc]
                 ELSE req[r]]
    /\ UNCHANGED <<nextTok, issued, refreshFailed, isInitialized>>
    /\ UNCHANGED tradevars

\* The caller of a completed request has consumed its outcome: the request
\* is no longer awaited.
Forget(r) ==
    /\ req[r].pc = "done"
    /\ req' = [req EXCEPT ![r] = FreshReq]
    /\ UNCHANGED <<tokvars, nextTok, issued, refreshFailed, sessvars>>
    /\ UNCHANGED tradevars

Next ==
    \/ Mount
    \/ \E r \in Req, kind \in Kinds : Send(r, kind)
    \/ \E r \in Req : RespondOk(r)
    \/ \E r \in Req, st \in ErrStatuses : RespondErr(r, st)
    \/ \E r \in Req : RefreshOk(r)
    \/ \E r \in Req : RefreshFail(r)
    \/ Logout

Spec == Init /\ [][Next]_vars

\* Longer runs: callers consume the outcomes of completed requests, so more
\* requests are issued than are awaited at one time.
NextLong ==
    \/ Next
    \/ \E r \in Req : Forget(r)

SpecLong == Init /\ [][NextLong]_vars

\* The token store on its own, across page loads: setTokens and clearTokens
\* called with any token strings, and reloads of the page (the module is
\* evaluated again: memory is reset, localStorage is kept).
StoreArgs == {AccessTok(k) : k \in 0..MaxArg} \cup {RefreshTok(k) : k \in 0..MaxArg}

StoreSet(a, r) ==
    /\ SetTokens(a, r)
    /\ UNCHANGED <<nextTok, req, issued, refreshFailed, sessvars>>
    /\ UNCHANGED tradevars

StoreClear ==
    /\ ClearTokens
    /\ UNCHANGED <<nextTok, req, issued, refreshFailed, sessvars>>
    /\ UNCHANGED tradevars

Restart ==
    /\ accessToken' = Null
    /\ refreshToken' = Null
    /\ UNCHANGED <<lsAccess, lsRefresh, nextTok, req, issued, refreshFailed, sessvars>>
    /\ UNCHANGED tradevars

NextStore ==
    \/ \E a, r \in StoreArgs : StoreSet(a, r)
    \/ StoreClear
    \/ Restart

SpecStore == Init /\ [][NextStore]_vars

\* The same runs with every error class of the wire contract.
NextWire ==
    \/ Next
    \/ \E r \in Req : RespondErr(r, 422)

SpecWire == Init /\ [][NextWire]_vars

\* The trade mutations (useBuyStock, useSellStock, useQuickTrade) next to
\* the AuthProvider's cache operations: the mutation of each hook and the
\* invalidateQueries calls per query key.

\* A hook whose onSuccess leaves the ['user'] query alone.
Invalidates_NoUser(h) == TradeKeys \ {"user"}

\* The query keys the onSuccess callback of hook h invalidates.
Invalidates(h) == TradeKeys

\* mutate() of hook h: mutationFn (tradingApi.buy / sell / quickTrade) is
\* called.
Mutate(h) ==
    /\ mutation[h].status # "pending"
    /\ invalidated["positions"]
          + Cardinality({g \in Hooks : mutation[g].status = "pending"}) < MaxTrades
    /\ mutation' = [mutation EXCEPT ![h] = [status |-> "pending", failureCount |-> 0]]
    /\ UNCHANGED <<tokvars, nextTok, req, issued, refreshFailed, sessvars, invalidated>>

\* mutationFn of hook h resolves: onSuccess runs.
TradeSucceeds(h) ==
    /\ mutation[h].status = "pending"
    /\ mutation' = [mutation EXCEPT ![h].status = "success"]
    /\ invalidated' = [k \in QueryKeys |->
                          IF k \in Invalidates(h) THEN invalidated[k] + 1
                          ELSE invalidated[k]]
    /\ UNCHANGED <<tokvars, nextTok, req, issued, refreshFailed, sessvars>>

\* mutationFn of hook h rejects: the mutation is retried MutationRetry times,
\* then it is in error; the hooks define no onError or onSettled.
TradeFails(h) ==
    /\ mutation[h].status = "pending"
    /\ mutation' = [mutation EXCEPT ![h] =
                       [status |-> IF @.failureCount < MutationRetry
                                   THEN "pending" ELSE "error",
                        failureCount |-> @.failureCount + 1]]
    /\ UNCHANGED <<tokvars, nextTok, req, issued, refreshFailed, sessvars, invalidated>>

NextTrade ==
    \/ Mount
    \/ Logout
    \/ \E h \in Hooks : Mutate(h)
    \/ \E h \in Hooks : TradeSucceeds(h)
    \/ \E h \in Hooks : TradeFails(h)

SpecTrade == Init /\ [][NextTrade]_vars

\* The `api` instance on its own, before the AuthProvider has mounted: data
\* requests issued by the hooks and every error class of the wire contract.
NextApi ==
    \/ \E r \in Req : Send(r, "data")
    \/ \E r \in Req : RespondOk(r)
    \/ \E r \in Req, st \in WireErrStatuses : RespondErr(r, st)
    \/ \E r \in Req : RefreshOk(r)
    \/ \E r \in Req : RefreshFail(r)

SpecApi == Init /\ [][NextApi]_vars

\* The backend answers first submissions in the order they were sent (one
\* connection, no pipelining), so the 401s of the requests arrive in slot
\* order; refresh calls and resubmissions return in any order.
AnsweredInOrder(r) ==
    req[r].sends = 1 =>
       \A s \in Req : s < r => ~(req[s].pc = "sent" /\ req[s].sends = 1)

NextFifo ==
    \/ \E r \in Req : Send(r, "data")
    \/ \E r \in Req : AnsweredInOrder(r) /\ RespondOk(r)
    \/ \E r \in Req, st \in ErrStatuses : AnsweredInOrder(r) /\ RespondErr(r, st)
    \/ \E r \in Req : RefreshOk(r)
    \/ \E r \in Req : RefreshFail(r)

SpecFifo == Init /\ [][NextFifo]_vars

\* Every network call eventually returns: the backend or the transport
\* answers each submitted request and each refresh call.
Returns(r) == RespondOk(r) \/ \E st \in WireErrStatuses : RespondErr(r, st)

RefreshReturns(r) == RefreshOk(r) \/ RefreshFail(r)

SpecLive ==
    /\ Init
    /\ [][NextApi]_vars
    /\ \A r \in Req : WF_vars(Returns(r)) /\ WF_vars(RefreshReturns(r))

TypeOK ==
    /\ req \in [Req -> [pc : {"idle", "sent", "refreshing", "done"},
                        kind : Kinds, retry : BOOLEAN,
                        auth : {Null} \cup {AccessTok(k) : k \in TokIds},
                        sends : 0..2, refreshes : 0..1,
                        rsp1 : {-1, 200} \cup WireErrStatuses,
                        rsp2 : {-1, 200} \cup WireErrStatuses,
                        refSent : {Null} \cup {RefreshTok(k) : k \in TokIds},
                        refRes : {"none", "ok", "fail"},
                        refTok : {Null} \cup {AccessTok(k) : k \in TokIds},
                        ep : 0..MaxIssued,
                        cancelled : {"no", "sent", "refreshing"},
                        out : {"none", "resolved", "rejected"},
                        outStatus : {-1, 200} \cup WireErrStatuses]]
    /\ nextTok \in TokIds
    /\ issued \in 0..MaxIssued
    /\ refreshFailed \in BOOLEAN
    /\ meReq \in 0..NReq
    /\ userData \in {"undefined", "null", "user"}
    /\ userError \in BOOLEAN
    /\ mutation \in [Hooks -> [status : {"idle", "pending", "success", "error"},
                                failureCount : 0..(MutationRetry + 1)]]
    /\ invalidated \in [QueryKeys -> 0..MaxTrades]


\* ================================================================ claims

\* C1 -- Single-flight refresh: in every reachable state at most one
\* POST /api/auth/refresh is in flight, and no two requests of one refresh
\* episode each issue a refresh call.
C1_SingleFlight ==
    /\ Cardinality(RefreshInFlight) <= 1
    /\ \A r1, r2 \in Req :
         (r1 # r2 /\ req[r1].refreshes > 0 /\ req[r2].refreshes > 0)
            => req[r1].ep # req[r2].ep

\* C2 -- Queue replay: when a refresh of an episode has succeeded, every
\* request that received a 401 during that episode is resubmitted exactly
\* once, the resubmission carries the access token that refresh returned, and
\* the caller receives the response of its own resubmission.
C2_QueueReplay ==
    \A r1, r2 \in Req :
       (/\ req[r1].refRes = "ok"
        /\ req[r2].rsp1 = 401
        /\ req[r2].ep = req[r1].ep
        /\ req[r2].pc = "done")
          => /\ req[r2].sends = 2
             /\ req[r2].auth = req[r1].refTok
             /\ req[r2].outStatus = req[r2].rsp2

\* The requests that received a 401 in the refresh episode e.
Episode(e) == {s \in Req : req[s].rsp1 = 401 /\ req[s].ep = e}

\* C3 -- Terminal failure fan-out: when a refresh call of an episode has
\* failed, then once every request that received a 401 in that episode has
\* completed (and nothing later has logged in or started another episode),
\* all of them were rejected and getAccessToken() and getRefreshToken()
\* return null.
C3_FailureFanOut ==
    \A r \in Req :
       (/\ req[r].refRes = "fail"
        /\ req[r].ep = MaxEp(Req)
        /\ \A s \in Episode(req[r].ep) : req[s].pc = "done"
        /\ \A s \in Req : req[s].kind # "login")
          => /\ \A s \in Episode(req[r].ep) : req[s].out = "rejected"
             /\ GetAccessToken = Null
             /\ GetRefreshToken = Null

\* C4 -- Bounded retry: a request is submitted at most twice and issues at
\* most one refresh call; a request already marked _retry that receives a
\* 401 again is rejected to its caller with that 401 at once, without a
\* further refresh call.
C4_BoundedRetry ==
    \A r \in Req :
       /\ req[r].sends <= 2
       /\ req[r].refreshes <= 1
       /\ req[r].pc = "refreshing" => req[r].sends = 1
       /\ req[r].rsp2 = 401 =>
             /\ req[r].pc = "done"
             /\ req[r].out = "rejected"
             /\ req[r].outStatus = 401

\* A retried request was answered 401 again while another request's refresh
\* call was in flight.
C4_Witness ==
    \E r, s \in Req :
       /\ req[r].rsp2 = 401 /\ req[r].pc = "done"
       /\ req[s].pc = "refreshing"


\* C5 -- Token round trip: right after setTokens(a, r) (login or refresh
\* success) getAccessToken() returns a and getRefreshToken() returns r;
\* right after clearTokens() (logout or refresh failure) both return null.
C5_RoundTrip ==
    [][ /\ \A r \in Req :
             (RefreshOk(r) \/ (req[r].kind = "login" /\ RespondOk(r)))
                => /\ GetAccessToken' = AccessTok(nextTok + 1)
                   /\ GetRefreshToken' = RefreshTok(nextTok + 1)
        /\ (Logout \/ \E r \in Req : RefreshFail(r))
                => /\ GetAccessToken' = Null
                   /\ GetRefreshToken' = Null ]_vars

\* setTokens has replaced an earlier pair held in memory.
C5_Witness ==
    /\ nextTok = 2
    /\ accessToken = AccessTok(2)
    /\ refreshToken = RefreshTok(2)

\* C6 -- Transparent refresh: a request whose refresh call succeeded is
\* resubmitted, and its caller receives the outcome of the resubmission only:
\* when the resubmission returns 200 the caller gets that 200, never the
\* intermediate 401.
C6_TransparentRefresh ==
    \A r \in Req :
       req[r].refRes = "ok" =>
          /\ req[r].sends = 2
          /\ req[r].pc \in {"sent", "done"}
          /\ req[r].pc = "done" => req[r].outStatus = req[r].rsp2
          /\ req[r].rsp2 = 200 => req[r].out = "resolved"

\* After a successful login, a data request sent with the login's tokens got
\* a 401, refreshed with the login's refresh token and resolved with the 200
\* of its resubmission.
C6_Witness ==
    \E l, r \in Req :
       /\ req[l].kind = "login" /\ req[l].out = "resolved"
       /\ req[r].kind = "data"
       /\ req[r].rsp1 = 401
       /\ req[r].refSent = RefreshTok(1)
       /\ req[r].refRes = "ok"
       /\ req[r].rsp2 = 200
       /\ req[r].out = "resolved"

\* C7 -- Token pair atomicity: getAccessToken() is null iff
\* getRefreshToken() is null, and a pair that is present comes from one
\* login or refresh response.
C7_PairAtomicity ==
    /\ (GetAccessToken = Null) <=> (GetRefreshToken = Null)
    /\ GetAccessToken # Null =>
          \E k \in TokIds : /\ GetAccessToken = AccessTok(k)
                            /\ GetRefreshToken = RefreshTok(k)

\* The store was cleared (logout or a failed refresh) while another
\* request's refresh call was still in flight.
C7_Witness ==
    /\ nextTok >= 1
    /\ GetAccessToken = Null
    /\ \E r \in Req : req[r].pc = "refreshing"

\* No auth operation in progress: the provider is mounted, no request is in
\* flight, and the ['user'] query is not about to fetch on its own.
Settled ==
    /\ isInitialized
    /\ \A r \in Req : req[r].pc \in {"idle", "done"}
    /\ ~(enabled /\ userData = "undefined" /\ ~userError)

\* C8 -- Session/token agreement: in every settled state isAuthenticated is
\* false iff the token store holds no token pair.
C8_SessionTokenAgreement ==
    Settled => ((~IsAuthenticated) <=> (GetAccessToken = Null))

\* C9 -- Session downgrade on terminal failure: whenever a refresh call
\* fails, the session becomes unauthenticated (isAuthenticated false, user
\* null).
C9_SessionDowngrade ==
    [][ \A r \in Req :
           RefreshFail(r) => (~IsAuthenticated' /\ User' = "null") ]_vars

\* C10 -- Token lifecycle: a pair comes into an empty store only through a
\* successful login; once the store is empty getAccessToken() stays null
\* until then.
C10_TokenLifecycle ==
    [][ (GetAccessToken = Null /\ GetAccessToken' # Null)
           => \E r \in Req : req[r].kind = "login" /\ RespondOk(r) ]_vars


\* C11 -- Non-401 failures pass through: a request, fresh or already
\* retried, answered with 403, another 4xx, 5xx or no response is rejected
\* to its caller with that error; no refresh call is issued, it is not
\* resubmitted, its retry mark is not set and the token store is unchanged.
C11_NonAuthPassThrough ==
    [][ \A r \in Req :
           req[r].pc = "sent" =>
              \* the status of the response this step delivers to r, if any
              LET st == IF req[r].sends = 1 THEN req'[r].rsp1 ELSE req'[r].rsp2 IN
              (st \in WireErrStatuses \ {401} /\ RespondErr(r, st)) =>
                 /\ req'[r].pc = "done"
                 /\ req'[r].out = "rejected"
                 /\ req'[r].outStatus = st
                 /\ req'[r].retry = req[r].retry
                 /\ req'[r].sends = req[r].sends
                 /\ req'[r].refreshes = req[r].refreshes
                 /\ RefreshInFlight' = RefreshInFlight
                 /\ GetAccessToken' = GetAccessToken
                 /\ GetRefreshToken' = GetRefreshToken
                 /\ UNCHANGED tokvars ]_vars

\* A retried request was rejected with a 422 and a fresh one with a
\* transport failure.
C11_Witness ==
    \E r, s \in Req :
       /\ req[r].rsp2 = 422 /\ req[r].out = "rejected" /\ req[r].retry
       /\ req[s].rsp1 = NoResponse /\ req[s].out = "rejected" /\ ~req[s].retry

\* C12 -- Login failure is not retried: a login answered 401 or 422 is
\* rejected to the caller of login() after that one POST, with no refresh
\* call and no resubmission, whatever the token store holds.
C12_LoginNotRetried ==
    \A r \in Req :
       (req[r].kind = "login" /\ req[r].rsp1 \in {401, 422}) =>
          /\ req[r].pc = "done"
          /\ req[r].out = "rejected"
          /\ req[r].outStatus = req[r].rsp1
          /\ req[r].sends = 1
          /\ req[r].refreshes = 0

\* C13 -- Durable persistence: after any sequence of setTokens, clearTokens
\* and page reloads the getters return the arguments of the most recent
\* setTokens, or null after a clearTokens; after a write the in-memory
\* tokens never differ from the durable ones.
C13_DurablePersistence ==
    [][ /\ \A a, r \in StoreArgs :
             StoreSet(a, r) => (GetAccessToken' = a /\ GetRefreshToken' = r)
        /\ StoreClear => (GetAccessToken' = Null /\ GetRefreshToken' = Null)
        /\ Restart => /\ GetAccessToken' = GetAccessToken
                      /\ GetRefreshToken' = GetRefreshToken
        /\ accessToken' # Null => accessToken' = lsAccess'
        /\ refreshToken' # Null => refreshToken' = lsRefresh' ]_vars

\* A page load after setTokens(a, r) with unrelated a and r: memory is
\* empty, the pair is read back from localStorage.
C13_Witness ==
    /\ accessToken = Null
    /\ refreshToken = Null
    /\ GetAccessToken = AccessTok(1)
    /\ GetRefreshToken = RefreshTok(2)

\* C14 -- Request authorization: a request submitted or resubmitted through
\* `api` while the store holds an access token t carries t as its bearer
\* credential, and running the request interceptor once more on the config
\* that was sent gives the same credential.
C14_RequestAuthorization ==
    [][ \A r \in Req :
           ((\E kind \in Kinds : Send(r, kind)) \/ RefreshOk(r)) =>
              /\ GetAccessToken' # Null => req'[r].auth = GetAccessToken'
              /\ Authorize(req'[r].auth, GetAccessToken') = req'[r].auth ]_vars

\* A request was resubmitted with the token its refresh stored.
C14_Witness ==
    \E r \in Req :
       /\ req[r].pc = "sent"
       /\ req[r].sends = 2
       /\ req[r].auth = AccessTok(1)
       /\ GetAccessToken = AccessTok(1)


\* C15 -- Cancellation safety: a request cancelled by its caller while it
\* is waiting on an in-flight refresh is not resubmitted when the refresh
\* resolves.
C15_CancellationSafety ==
    \A r \in Req : req[r].cancelled = "refreshing" => req[r].sends < 2

\* C16 -- Successful login postcondition: when POST /api/auth/login
\* succeeds, on return of login() the getters return the tokens of the
\* response, the session exposes the user with isAuthenticated = true, and a
\* later 401 finds a refresh token to refresh with.
C16_LoginPostcondition ==
    [][ \A r \in Req :
           (req[r].kind = "login" /\ RespondOk(r)) =>
              /\ GetAccessToken' = AccessTok(nextTok + 1)
              /\ GetRefreshToken' = RefreshTok(nextTok + 1)
              /\ User' = "user"
              /\ IsAuthenticated'
              /\ HasRefresh(GetRefreshToken')
              /\ ~refreshFailed' ]_vars

\* After a successful login a request got a 401 and started a refresh call
\* with the login's refresh token.
C16_Witness ==
    \E l, r \in Req :
       /\ req[l].kind = "login" /\ req[l].out = "resolved"
       /\ req[r].pc = "refreshing"
       /\ req[r].refSent = RefreshTok(1)
       /\ IsAuthenticated

\* C17 -- Logout postcondition: right after logout() both tokens are null in
\* memory and in localStorage, and the session exposes user = null with
\* isAuthenticated = false.
C17_LogoutPostcondition ==
    [][ Logout =>
           /\ accessToken' = Null /\ refreshToken' = Null
           /\ lsAccess' = Null /\ lsRefresh' = Null
           /\ GetAccessToken' = Null /\ GetRefreshToken' = Null
           /\ User' = "null"
           /\ ~IsAuthenticated' ]_vars

\* After a login, logout() ran while the profile fetch was in flight.
C17_Witness ==
    /\ nextTok >= 1
    /\ GetAccessToken = Null
    /\ ~IsAuthenticated
    /\ \E r \in Req : req[r].cancelled # "no"

\* C18 -- Retried-request failure is terminal with clearing: when a request
\* already marked retried receives a 401 again, the token store is cleared
\* and the session is downgraded to unauthenticated.
C18_RetriedFailureClears ==
    [][ \A r \in Req :
           (req[r].retry /\ RespondErr(r, 401)) =>
              /\ GetAccessToken' = Null
              /\ GetRefreshToken' = Null
              /\ ~IsAuthenticated' ]_vars

\* C19 -- No refresh token, no network call: a request that receives a 401
\* while getRefreshToken() is null issues no refresh call, is not
\* resubmitted, is rejected to its caller, and the store holds no tokens
\* afterwards.
C19_NoRefreshToken ==
    [][ \A r \in Req :
           (RespondErr(r, 401) /\ GetRefreshToken = Null) =>
              /\ req'[r].pc = "done"
              /\ req'[r].out = "rejected"
              /\ req'[r].outStatus = 401
              /\ req'[r].sends = req[r].sends
              /\ req'[r].refreshes = req[r].refreshes
              /\ RefreshInFlight' = RefreshInFlight
              /\ GetAccessToken' = Null
              /\ GetRefreshToken' = Null ]_vars

\* A fresh request got a 401 with an empty store and was rejected without a
\* refresh call.
C19_Witness ==
    \E r \in Req :
       /\ req[r].rsp1 = 401
       /\ req[r].retry
       /\ req[r].refreshes = 0
       /\ req[r].out = "rejected"

\* C20 -- Failed is terminal until login: after a refresh call has failed, no
\* request issues a further POST /api/auth/refresh until a login succeeds.
C20_FailedTerminal ==
    [][ refreshFailed =>
           \A r \in Req : req'[r].pc = "refreshing" => req[r].pc = "refreshing" ]_vars

\* C21 -- Redundant refresh avoided: a fresh request that receives a 401
\* while no refresh call is in flight and the store holds a newer access
\* token than the one it was sent with is resubmitted with the current token
\* and issues no refresh call.
C21_RedundantRefreshAvoided ==
    [][ \A r \in Req :
           (/\ req[r].pc = "sent"
            /\ ~req[r].retry
            /\ RefreshInFlight = {}
            /\ req[r].auth # Null
            /\ GetAccessToken # Null
            /\ GetAccessToken[2] > req[r].auth[2]
            /\ RespondErr(r, 401))
              => /\ req'[r].refreshes = req[r].refreshes
                 /\ req'[r].pc = "sent"
                 /\ req'[r].sends = req[r].sends + 1
                 /\ req'[r].auth = GetAccessToken ]_vars

\* C22 -- FIFO replay: of two requests that received their 401s in one
\* refresh episode and were both resubmitted, the one whose 401 arrived
\* first was resubmitted first (resubmissions are numbered by the pair the
\* refresh stored just before).
C22_FifoReplay ==
    \A r, s \in Req :
       (/\ r < s
        /\ req[r].rsp1 = 401 /\ req[s].rsp1 = 401
        /\ req[r].ep = req[s].ep
        /\ req[r].refRes = "ok" /\ req[s].refRes = "ok")
          => req[r].refTok[2] < req[s].refTok[2]


\* C23 -- Unauthenticated pass-through: a request submitted or resubmitted
\* through `api` at a moment when getAccessToken() is null goes out without
\* an Authorization header.
C23_UnauthenticatedPassThrough ==
    [][ \A r \in Req :
           (/\ GetAccessToken' = Null
            /\ (\E kind \in Kinds : Send(r, kind)) \/ RefreshOk(r))
              => req'[r].auth = Null ]_vars

\* After the store was emptied, a request went out without a header while
\* another one had been resubmitted with the token of its refresh.
C23_Witness ==
    \E r, s \in Req :
       /\ req[r].sends = 1 /\ req[r].auth = Null
       /\ req[s].sends = 2 /\ req[s].auth # Null
       /\ nextTok >= 1
       /\ GetAccessToken = Null

\* C24 -- Refresh is not re-entrant: when the refresh call of a request
\* fails, the request is rejected with its original 401; no further refresh
\* call is issued, the refresh call is not repeated and nothing is
\* resubmitted.
C24_RefreshNotReentrant ==
    [][ \A r \in Req :
           (req[r].pc = "refreshing" /\ RefreshFail(r)) =>
              /\ req'[r].pc = "done"
              /\ req'[r].out = "rejected"
              /\ req'[r].outStatus = 401
              /\ req'[r].refreshes = 1
              /\ req'[r].sends = 1
              /\ RefreshInFlight' = RefreshInFlight \ {r}
              /\ \A s \in Req \ {r} : req'[s] = req[s] ]_vars

\* The refresh call of one request failed while the refresh call of another
\* was still in flight.
C24_Witness ==
    \E r, s \in Req :
       /\ req[r].refRes = "fail" /\ req[r].out = "rejected" /\ req[r].refreshes = 1
       /\ req[s].pc = "refreshing"

\* C25 -- No lost request: if every network call eventually returns, every
\* request issued through `api` eventually delivers an outcome to its
\* caller, a request has an outcome exactly when it has completed, and an
\* outcome once delivered is never replaced.
C25_NoLostRequest ==
    /\ [](\A r \in Req : (req[r].out # "none") <=> (req[r].pc = "done"))
    /\ [][ \A r \in Req :
              req[r].out # "none" =>
                 /\ req'[r].out = req[r].out
                 /\ req'[r].outStatus = req[r].outStatus ]_vars
    /\ \A r \in Req :
          (req[r].pc \in {"sent", "refreshing"}) ~> (req[r].out # "none")

\* Two requests received their 401s in one refresh episode and both have
\* delivered an outcome, one of them after a resubmission.
C25_Witness ==
    \E r, s \in Req :
       /\ r # s
       /\ req[r].rsp1 = 401 /\ req[s].rsp1 = 401
       /\ req[r].ep = req[s].ep
       /\ req[r].out # "none" /\ req[s].out # "none"
       /\ req[r].sends = 2

\* C26 -- Refresh does not block others: while the refresh call of a request
\* is in flight, a new request can be sent, and a request in flight that is
\* answered 200 completes to its caller, the refresh call still being in
\* flight.
C26_RefreshDoesNotBlock ==
    \A r \in RefreshInFlight :
       /\ \A s \in Req :
             (/\ req[s].pc = "idle"
              /\ \A t \in Req : t < s => req[t].pc # "idle"
              /\ issued < MaxIssued)
                => ENABLED (Send(s, "data") /\ req'[r].pc = "refreshing")
       /\ \A s \in Req :
             (req[s].pc = "sent" /\ (req[s].kind = "login" => nextTok < MaxTok))
                => ENABLED (/\ RespondOk(s)
                            /\ req'[s].out = "resolved"
                            /\ req'[r].pc = "refreshing")

\* A request sent after a logout, hence after the 401 of a request that
\* refreshes with the pair of the page load, has resolved while that refresh
\* call is still in flight.
C26_Witness ==
    \E r, s \in Req :
       /\ req[r].pc = "refreshing"
       /\ req[r].refSent = RefreshTok(0)
       /\ req[s].auth = Null
       /\ req[s].out = "resolved"

\* C27 -- Non-authorization profile failure keeps the session: when the
\* profile fetch fails with a 5xx, a 4xx other than 401 or no response, the
\* session's user and isAuthenticated keep their values and the token store
\* is unchanged.
C27_ProfileFailureKeepsSession ==
    [][ \A r \in Req :
           (req[r].pc = "sent" /\ req[r].kind = "me") =>
              \* the status of the response this step delivers to r, if any
              LET st == IF req[r].sends = 1 THEN req'[r].rsp1 ELSE req'[r].rsp2 IN
              (st \in ErrStatuses \ {401} /\ RespondErr(r, st)) =>
                 /\ User' = User
                 /\ IsAuthenticated' = IsAuthenticated
                 /\ GetAccessToken' = GetAccessToken
                 /\ GetRefreshToken' = GetRefreshToken
                 /\ UNCHANGED tokvars ]_vars

\* The profile of a logged-in user was fetched again and the fetch failed
\* with a 500: the user is still exposed, next to the error.
C27_Witness ==
    \E r \in Req :
       /\ req[r].kind = "me"
       /\ req[r].out = "rejected"
       /\ req[r].outStatus = 500
       /\ userError
       /\ IsAuthenticated

\* C28 -- A failed refresh never wipes a newer pair: when the refresh call of
\* a request fails, the store is cleared if it still holds the pair the
\* refresh call was issued with, and is left as it is if it holds a pair
\* stored since then by a login or another refresh.
C28_FailedRefreshKeepsNewerPair ==
    [][ \A r \in Req :
           (req[r].pc = "refreshing" /\ RefreshFail(r)) =>
              IF GetRefreshToken \in {Null, req[r].refSent}
              THEN GetAccessToken' = Null /\ GetRefreshToken' = Null
              ELSE /\ GetAccessToken' = GetAccessToken
                   /\ GetRefreshToken' = GetRefreshToken ]_vars

\* C29 -- No profile fetch without a token: GET /api/auth/me is issued only
\* while getAccessToken() is non-null; on an initial load with no stored
\* token the session settles to user = null, isAuthenticated = false,
\* isLoading = false without any network call.
C29_NoProfileFetchWithoutToken ==
    [][ /\ \A r \in Req : Send(r, "me") => GetAccessToken # Null
        /\ (Mount /\ GetAccessToken = Null) =>
              /\ User' = "null"
              /\ ~IsAuthenticated'
              /\ ~IsLoading'
              /\ ~enabled'
              /\ req' = req ]_vars

\* C30 -- Trade cache invalidation: every successful buy, sell or
\* quick-trade mutation invalidates 'positions', 'user', 'trade-history' and
\* 'portfolio-summary' and no other key; a failing trade mutation invalidates
\* nothing; nothing else invalidates a query.
C30_TradeInvalidation ==
    [][ /\ \A h \in Hooks :
             (mutation[h].status = "pending" /\ TradeSucceeds(h)) =>
                \A k \in QueryKeys :
                   invalidated'[k] = invalidated[k] + (IF k \in TradeKeys THEN 1 ELSE 0)
        /\ \A h \in Hooks :
             (mutation[h].status = "pending" /\ TradeFails(h)) =>
                invalidated' = invalidated
        /\ invalidated' # invalidated => \E h \in Hooks : TradeSucceeds(h) ]_vars

\* One trade succeeded on its retry and another failed for good: each of
\* the four keys was invalidated once, the other keys never.
C30_Witness ==
    /\ \E h, g \in Hooks :
          /\ mutation[h].status = "success" /\ mutation[h].failureCount = 1
          /\ mutation[g].status = "error"
    /\ \A k \in QueryKeys : invalidated[k] = (IF k \in TradeKeys THEN 1 ELSE 0)

====
